---- MODULE Spec2Model ----
(***************************************************************************)
(* A model of fx, the terminal file browser: the State structure, the      *)
(* event loop update_loop, the line-editing prompt, the caret movement      *)
(* move_caret, the selection handlers and the directory re-read read_dir.   *)
(*                                                                          *)
(* The program state is the record `state` (struct State); `pc` is the      *)
(* position of the single thread; `histories` is the local clone of         *)
(* state.history that prompt() edits and writes back when it returns.       *)
(* The environment is fixed when the program starts: the terminal height,  *)
(* the build profile (overflow checks on or off), `fs` (the answers         *)
(* fs::read_dir can give: the directory may change between two reads) and   *)
(* `keyboard` (the chars the user types into a prompt).                     *)
(*                                                                          *)
(* Option<T> is a sequence of length 0 (None) or 1 (Some).  A String is a   *)
(* sequence of UTF-8 bytes, a byte being a one-token string.                *)
(***************************************************************************)
EXTENDS Integers, Sequences, FiniteSets

VARIABLES state, pc, histories, call, height, overflow_checks, fs, keyboard

vars == <<state, pc, histories, call, height, overflow_checks, fs, keyboard>>

----------------------------------------------------------------------------
(* Program constants *)

MARGIN == 8

PADDING == 2

(* Bounds of the model *)

MaxHeight == 13

MaxBuf == 2

MaxHist == 2

MaxDepth == 2

MaxLen == 8

MaxLong == 22

MaxEntries == 3

MaxSel == 2

----------------------------------------------------------------------------
(* Option<T> *)

None == <<>>

Some(x) == <<x>>

IsSome(o) == o # <<>>

UnwrapOrDefault(o) == IF o = <<>> THEN <<>> ELSE o[1]

----------------------------------------------------------------------------
(* usize arithmetic.  A subtraction below zero panics in a build with      *)
(* overflow checks (debug) and wraps modulo the word size otherwise         *)
(* (release).  The word is narrowed to 30 bits so that TLC's integers hold  *)
(* every sum; every true quantity of the model stays far below it.  Ovf     *)
(* marks an evaluation that panicked.                                       *)

UsizeModulus == 2^30

Ovf == -1

USub(a, b) ==
    IF a = Ovf \/ b = Ovf THEN Ovf
    ELSE IF a >= b THEN a - b
    ELSE IF overflow_checks THEN Ovf
    ELSE a - b + UsizeModulus

UAdd(a, b) ==
    IF a = Ovf \/ b = Ovf THEN Ovf
    ELSE IF a + b < UsizeModulus THEN a + b
    ELSE IF overflow_checks THEN Ovf
    ELSE a + b - UsizeModulus

----------------------------------------------------------------------------
(* Results of a handler: the state it leaves and how it returned:          *)
(* "ok" (Ok(())), "err" (an Err propagated by `?`), "panic".                *)

Ok(s) == [s |-> s, r |-> "ok"]

Err(s) == [s |-> s, r |-> "err"]

Panic(s) == [s |-> s, r |-> "panic"]

----------------------------------------------------------------------------
(* Strings: UTF-8 byte sequences *)

E_ACUTE == <<"C3", "A9">>

(* char::encode_utf8: the char U+00E9 takes two bytes, an ASCII char one *)
Utf8(ch) == IF ch = "U+E9" THEN E_ACUTE ELSE <<ch>>

IsContinuation(b) == b = "A9"

(* str::is_char_boundary, idx counted from 0 *)
IsCharBoundary(s, idx) ==
    \/ idx = 0
    \/ idx = Len(s)
    \/ idx < Len(s) /\ ~IsContinuation(s[idx + 1])

(* width in bytes of the char that starts at byte idx (0-based, a boundary) *)
CharLenAt(s, idx) ==
    IF idx + 1 < Len(s) /\ IsContinuation(s[idx + 2]) THEN 2 ELSE 1

(* String::insert(idx, ch): <<>> stands for the panic on a non-boundary idx *)
StringInsert(s, idx, ch) ==
    IF idx > Len(s) \/ ~IsCharBoundary(s, idx) THEN None
    ELSE Some(SubSeq(s, 1, idx) \o Utf8(ch) \o SubSeq(s, idx + 1, Len(s)))

(* String::remove(idx): removes the whole char at idx; panics at the end of *)
(* the string and on a non-boundary idx                                      *)
StringRemove(s, idx) ==
    IF idx >= Len(s) \/ ~IsCharBoundary(s, idx) THEN None
    ELSE Some(SubSeq(s, 1, idx) \o SubSeq(s, idx + CharLenAt(s, idx) + 1, Len(s)))

(* str::chars().count() *)
CharCount(s) == Cardinality({i \in 1..Len(s) : ~IsContinuation(s[i])})

StartsWith(s, b) == Len(s) > 0 /\ s[1] = b

----------------------------------------------------------------------------
(* Entries and the file system *)

Entry(name, kind) == [file_name |-> name, kind |-> kind]

SelectKind(raw, kind) == SelectSeq(raw, LAMBDA e : e.kind = kind)

(* fs::read_dir of the current path: an I/O error or the entries in the    *)
(* order the file system returns them.  The directory can change between    *)
(* two reads, so every read draws afresh.                                   *)
FsOk(entries) == [ok |-> TRUE, entries |-> entries]

IoError == [ok |-> FALSE, entries |-> <<>>]

HexDigit == <<"1", "2", "3", "4", "5", "6", "7", "8", "9", "a", "b", "c", "d", "e", "f">>

GenListing(n) == [i \in 1..n |-> Entry(<<"f", HexDigit[i]>>, "File")]

(* a listing of up to 225 files, named by two digits *)
LongListing(n) ==
    [i \in 1..n |-> Entry(<<"f", HexDigit[((i - 1) \div 15) + 1],
                                  HexDigit[((i - 1) % 15) + 1]>>, "File")]

MixedListing ==
    << Entry(<<"a">>, "File"), Entry(<<"d">>, "Dir"), Entry(<<".", "h">>, "File") >>

FsListings == { <<>>, <<Entry(<<"s">>, "Symlink")>>, MixedListing }

FsResults == {IoError} \cup {FsOk(l) : l \in FsListings}

(* read_dir putting the files first and the directories last *)
ReadDirFilesFirst(s, fsres) ==
    IF ~fsres.ok THEN Err(s)
    ELSE LET kept == SelectSeq(fsres.entries, LAMBDA e :
                        ~(~s.show_dotfiles /\ StartsWith(e.file_name, ".")))
             dirs == SelectKind(kept, "Dir")
             symlinks == SelectKind(kept, "Symlink")
             files == SelectKind(kept, "File")
         IN Ok([s EXCEPT !.list = files \o symlinks \o dirs])

(* read_dir *)
ReadDir(s, fsres) ==
    IF ~fsres.ok THEN Err(s)
    ELSE LET kept == SelectSeq(fsres.entries, LAMBDA e :
                        ~(~s.show_dotfiles /\ StartsWith(e.file_name, ".")))
             dirs == SelectKind(kept, "Dir")
             symlinks == SelectKind(kept, "Symlink")
             files == SelectKind(kept, "File")
         IN Ok([s EXCEPT !.list = dirs \o symlinks \o files])

(* print: draws the screen and records the number of lines drawn; with     *)
(* exec output on display it returns before recording it                    *)
PrintLines == height - 1

VisibleRows(lines) == lines - MARGIN + 1

PrintScreen(s) ==
    IF IsSome(s.output) THEN Ok(s)
    ELSE Ok([s EXCEPT !.lines = PrintLines])

(* f(state)?; print(state)?: the print runs only when what precedes it      *)
(* returned Ok                                                             *)
ThenPrint(res) == IF res.r = "ok" THEN PrintScreen(res.s) ELSE res

(* The prompt kinds: the keys of state.history.  A key that was never     *)
(* inserted maps to None.                                                   *)
Kinds == {"search", "goto", "exec"}

HistoryOf(h, kind) == UnwrapOrDefault(h[kind])

(* State::new.  term_cursor is the visibility of the terminal's cursor,     *)
(* which state.term hides and shows: visible when the program starts.       *)
NewState(path) ==
    [ path |-> path, mode |-> "Normal", index |-> 0, list |-> <<>>, lines |-> 0,
      offset |-> 0, selected |-> <<>>, message |-> None, title |-> None,
      input |-> None, cursor |-> 0, show_dotfiles |-> TRUE, history_index |-> 0,
      history |-> [k \in Kinds |-> None], output |-> None,
      term_cursor |-> TRUE ]

----------------------------------------------------------------------------
(* move_caret *)

(* Move::Down scrolling only while more than PADDING entries follow the    *)
(* caret                                                                    *)
MoveDownStrict(s) ==
    IF s.list # <<>> /\ s.index < Len(s.list) - 1
    THEN LET s1 == [s EXCEPT !.index = s.index + 1]
             thr == USub(UAdd(USub(UAdd(s1.lines, s1.offset), MARGIN), 1), PADDING)
             rem == USub(USub(Len(s1.list), s1.index), 1)
         IN IF thr = Ovf THEN Panic(s1)
            ELSE IF s1.index >= thr
            THEN IF rem = Ovf THEN Panic(s1)
                 ELSE IF rem > PADDING
                 THEN IF UAdd(s1.offset, 1) = Ovf THEN Panic(s1)
                      ELSE PrintScreen([s1 EXCEPT !.offset = UAdd(s1.offset, 1)])
                 ELSE PrintScreen(s1)
            ELSE PrintScreen(s1)
    ELSE Ok(s)

(* Move::Down *)
MoveDown(s) ==
    IF s.list # <<>> /\ s.index < Len(s.list) - 1
    THEN LET s1 == [s EXCEPT !.index = s.index + 1]
             thr == USub(UAdd(USub(UAdd(s1.lines, s1.offset), MARGIN), 1), PADDING)
             rem == USub(Len(s1.list), s1.index)
         IN IF thr = Ovf THEN Panic(s1)
            ELSE IF s1.index >= thr
            THEN IF rem = Ovf THEN Panic(s1)
                 ELSE IF rem > PADDING
                 THEN IF UAdd(s1.offset, 1) = Ovf THEN Panic(s1)
                      ELSE PrintScreen([s1 EXCEPT !.offset = UAdd(s1.offset, 1)])
                 ELSE PrintScreen(s1)
            ELSE PrintScreen(s1)
    ELSE Ok(s)

MoveUp(s) ==
    IF s.list # <<>> /\ s.index > 0
    THEN LET s1 == [s EXCEPT !.index = s.index - 1]
             diff == USub(s1.index, s1.offset)
         IN IF s1.offset > 0
            THEN IF diff = Ovf THEN Panic(s1)
                 ELSE IF diff < PADDING
                 THEN PrintScreen([s1 EXCEPT !.offset = s1.offset - 1])
                 ELSE PrintScreen(s1)
            ELSE PrintScreen(s1)
    ELSE Ok(s)

(* slice::sort_unstable on a Vec<usize> *)
RECURSIVE InsertSorted(_, _)
InsertSorted(sorted, x) ==
    IF sorted = <<>> THEN <<x>>
    ELSE IF x <= Head(sorted) THEN <<x>> \o sorted
    ELSE <<Head(sorted)>> \o InsertSorted(Tail(sorted), x)

RECURSIVE SortUnstable(_)
SortUnstable(v) ==
    IF v = <<>> THEN <<>> ELSE InsertSorted(SortUnstable(Tail(v)), Head(v))

(* the first element of the sorted selection above the caret, else its first *)
NextSelected(selected, index) ==
    LET above == SelectSeq(selected, LAMBDA i : index < i)
    IN IF above # <<>> THEN above[1] ELSE selected[1]

(* the last element of the sorted selection below the caret, else its last *)
PrevSelected(selected, index) ==
    LET below == SelectSeq(selected, LAMBDA i : index > i)
    IN IF below # <<>> THEN below[Len(below)] ELSE selected[Len(selected)]

(* the offset adjustment that Move::Next and Move::First share *)
JumpOffset(s) ==
    LET lim == USub(USub(s.lines, MARGIN), PADDING)
        diff == USub(s.index, s.offset)
        rem == USub(Len(s.list), s.index)
        tail == USub(UAdd(UAdd(USub(s.index, s.lines), MARGIN), Len(s.list)), s.index)
        pinned == USub(tail, 1)
        beyond == USub(s.index, lim)
    IN IF lim = Ovf THEN Panic(s)
       ELSE IF s.index < lim THEN PrintScreen([s EXCEPT !.offset = 0])
       ELSE IF diff = Ovf THEN Panic(s)
       ELSE IF diff > lim
       THEN IF rem = Ovf THEN Panic(s)
            ELSE IF rem <= PADDING
            THEN IF pinned = Ovf THEN Panic(s)
                 ELSE PrintScreen([s EXCEPT !.offset = pinned])
            ELSE IF beyond = Ovf THEN Panic(s)
                 ELSE PrintScreen([s EXCEPT !.offset = beyond])
       ELSE PrintScreen(s)

MoveNext(s) ==
    IF s.list # <<>> /\ s.selected # <<>>
    THEN JumpOffset([s EXCEPT !.index = NextSelected(SortUnstable(s.selected), s.index)])
    ELSE Ok(s)

(* Move::Prev adjusting the offset as Move::Next does *)
MovePrevAdjusting(s) ==
    IF s.list # <<>> /\ s.selected # <<>>
    THEN JumpOffset([s EXCEPT !.index = PrevSelected(SortUnstable(s.selected), s.index)])
    ELSE Ok(s)

MovePrev(s) ==
    IF s.list # <<>> /\ s.selected # <<>>
    THEN PrintScreen([s EXCEPT !.index = PrevSelected(SortUnstable(s.selected), s.index)])
    ELSE Ok(s)

MoveFirst(s) ==
    IF s.list # <<>> /\ s.selected # <<>>
    THEN JumpOffset([s EXCEPT !.index = SortUnstable(s.selected)[1]])
    ELSE Ok(s)

(* Move::Top with the offset left as it is *)
MoveTopKeepsOffset(s) ==
    IF s.list # <<>>
    THEN PrintScreen([s EXCEPT !.index = 0])
    ELSE Ok(s)

MoveTop(s) ==
    IF s.list # <<>>
    THEN PrintScreen([s EXCEPT !.index = 0, !.offset = 0])
    ELSE Ok(s)

MoveBottom(s) ==
    IF s.list # <<>>
    THEN LET s1 == [s EXCEPT !.index = Len(s.list) - 1]
             bound == USub(USub(UAdd(UAdd(s1.lines, MARGIN), Len(s1.list)), s1.index), 1)
             tail == USub(UAdd(UAdd(USub(s1.index, s1.lines), MARGIN), Len(s1.list)), s1.index)
             pinned == USub(tail, 1)
         IN IF bound = Ovf THEN Panic(s1)
            ELSE IF s1.index < bound THEN PrintScreen([s1 EXCEPT !.offset = 0])
            ELSE IF pinned = Ovf THEN Panic(s1)
            ELSE PrintScreen([s1 EXCEPT !.offset = pinned])
    ELSE Ok(s)

MoveCaret(s, movement) ==
    CASE movement = "Down" -> MoveDown(s)
      [] movement = "Up" -> MoveUp(s)
      [] movement = "Next" -> MoveNext(s)
      [] movement = "Prev" -> MovePrev(s)
      [] movement = "First" -> MoveFirst(s)
      [] movement = "Top" -> MoveTop(s)
      [] movement = "Bottom" -> MoveBottom(s)

----------------------------------------------------------------------------
(* State::get_current: None on an empty list; indexing past the end panics *)
GetCurrent(s) ==
    IF s.list = <<>> THEN Ok(None)
    ELSE IF s.index >= Len(s.list) THEN Panic(s)
    ELSE Ok(Some(s.list[s.index + 1]))

(* the outcomes of Command::status in open_file *)
OpenOutcomes == {"no_app", "launch_failed", "exit_nonzero", "exit_zero"}

(* open_file; outcome is what Config::get_app and the external process do *)
OpenFile(s, outcome) ==
    LET cur == GetCurrent(s)
    IN IF cur.r = "panic" THEN Panic(s)
       ELSE IF cur.s = None THEN Ok(s)
       ELSE IF cur.s[1].kind = "Dir"
       THEN PrintScreen([s EXCEPT !.message = Some("Entry is not a file!")])
       ELSE IF outcome = "no_app"
       THEN PrintScreen([s EXCEPT !.message =
                Some("No app for given file extension specified!")])
       ELSE IF outcome = "launch_failed" THEN Panic(s)
       ELSE IF outcome = "exit_nonzero"
       THEN PrintScreen([s EXCEPT !.message = Some("Unable to open file!")])
       ELSE PrintScreen(s)

(* the part every branch of change_dir and do_goto shares once the new     *)
(* path is known                                                            *)
EnterPath(s, path, fsres) ==
    ThenPrint(ReadDir([s EXCEPT !.path = path, !.index = 0, !.offset = 0,
                           !.selected = <<>>, !.message = None], fsres))

(* Path::parent: None at the root *)
ParentOf(path) == IF path = <<>> THEN None ELSE Some(SubSeq(path, 1, Len(path) - 1))

HomePath == << <<"h">> >>

(* dirs::home_dir *)
HomeDirs == {None, Some(HomePath)}

ChangeDirParent(s, fsres) ==
    IF IsSome(ParentOf(s.path)) THEN EnterPath(s, ParentOf(s.path)[1], fsres) ELSE Ok(s)

ChangeDirChild(s, fsres, outcome) ==
    LET cur == GetCurrent(s)
    IN IF cur.r = "panic" THEN Panic(s)
       ELSE IF cur.s = None THEN Ok(s)
       ELSE IF cur.s[1].kind = "File" THEN OpenFile(s, outcome)
       ELSE EnterPath(s, Append(s.path, cur.s[1].file_name), fsres)

ChangeDirHome(s, home, fsres) ==
    IF IsSome(home) THEN EnterPath(s, home[1], fsres) ELSE Ok(s)

(* toggle_dotfiles *)
ToggleDotfiles(s, fsres) ==
    ThenPrint(ReadDir([s EXCEPT !.show_dotfiles = ~s.show_dotfiles, !.index = 0,
                           !.offset = 0, !.selected = <<>>], fsres))

(* Iterator::position *)
Position(v, x) ==
    IF \E i \in 1..Len(v) : v[i] = x
    THEN Some(CHOOSE i \in 1..Len(v) : v[i] = x /\ \A j \in 1..(i - 1) : v[j] # x)
    ELSE None

(* Vec::remove at a 1-based position *)
VecRemove(v, i) == SubSeq(v, 1, i - 1) \o SubSeq(v, i + 1, Len(v))

(* toggle_select with the removal of a selected index lost *)
ToggleSelectPushOnly(s) ==
    IF s.list # <<>>
    THEN PrintScreen([s EXCEPT !.selected = Append(s.selected, s.index)])
    ELSE Ok(s)

(* toggle_select without the test for an empty list *)
ToggleSelectUnguarded(s) ==
    LET pos == Position(s.selected, s.index)
    IN IF IsSome(pos)
       THEN PrintScreen([s EXCEPT !.selected = VecRemove(s.selected, pos[1])])
       ELSE PrintScreen([s EXCEPT !.selected = Append(s.selected, s.index)])

(* toggle_select *)
ToggleSelect(s) ==
    IF s.list # <<>>
    THEN LET pos == Position(s.selected, s.index)
         IN IF IsSome(pos)
            THEN PrintScreen([s EXCEPT !.selected = VecRemove(s.selected, pos[1])])
            ELSE PrintScreen([s EXCEPT !.selected = Append(s.selected, s.index)])
    ELSE Ok(s)

(* select_all *)
SelectAll(s) ==
    IF s.list # <<>>
    THEN PrintScreen([s EXCEPT !.selected = [i \in 1..Len(s.list) |-> i - 1]])
    ELSE Ok(s)

(* Key::Char('X') *)
ClearSelection(s) == PrintScreen([s EXCEPT !.selected = <<>>])

(* Key::Char('r') *)
Refresh(s, fsres) == ThenPrint(ReadDir(s, fsres))

(* Key::Char('q') while exec output is on display *)
DismissOutput(s, fsres) == ThenPrint(ReadDir([s EXCEPT !.output = None], fsres))

----------------------------------------------------------------------------
(* The regular expressions a search can hold.  The pattern is compiled as  *)
(* typed only when it starts with '^'; otherwise it is escaped and matches  *)
(* as a literal substring.  Of the syntax of the regex crate the model      *)
(* knows the anchor '^', the wildcard '.', the group opener '(' (never      *)
(* closed here, so a pattern that holds one does not compile) and literals. *)

RegexCompiles(pattern) == \A i \in 1..Len(pattern) : pattern[i] # "("

RECURSIVE RegexMatchAt(_, _, _)
RegexMatchAt(pattern, name, pos) ==
    IF pattern = <<>> THEN TRUE
    ELSE IF Head(pattern) = "^"
    THEN pos = 0 /\ RegexMatchAt(Tail(pattern), name, pos)
    ELSE IF Head(pattern) = "."
    THEN pos < Len(name) /\ RegexMatchAt(Tail(pattern), name, pos + CharLenAt(name, pos))
    ELSE pos < Len(name) /\ name[pos + 1] = Head(pattern)
         /\ RegexMatchAt(Tail(pattern), name, pos + 1)

(* Regex::is_match of the escaped input: the input occurs in the name *)
LiteralMatch(input, name) ==
    \E pos \in 0..(Len(name) - Len(input)) :
        SubSeq(name, pos + 1, pos + Len(input)) = input

IsMatch(input, name) ==
    IF StartsWith(input, "^") THEN RegexMatchAt(input, name, 0)
    ELSE LiteralMatch(input, name)

(* the indices of the matching entries, in list order *)
RECURSIVE Matches(_, _, _)
Matches(input, list, i) ==
    IF i >= Len(list) THEN <<>>
    ELSE (IF IsMatch(input, list[i + 1].file_name) THEN <<i>> ELSE <<>>)
         \o Matches(input, list, i + 1)

(* do_search clearing the selection before the pattern is compiled *)
DoSearchClearsFirst(s) ==
    LET input == UnwrapOrDefault(s.input)
    IN IF input = <<>> THEN Ok(s)
       ELSE IF StartsWith(input, "^") /\ ~RegexCompiles(input)
       THEN Ok([s EXCEPT !.selected = <<>>, !.message = Some("Invalid search pattern!")])
       ELSE MoveFirst([s EXCEPT !.selected = Matches(input, s.list, 0)])

(* do_search *)
DoSearch(s) ==
    LET input == UnwrapOrDefault(s.input)
    IN IF input = <<>> THEN Ok(s)
       ELSE IF StartsWith(input, "^") /\ ~RegexCompiles(input)
       THEN Ok([s EXCEPT !.message = Some("Invalid search pattern!")])
       ELSE MoveFirst([s EXCEPT !.selected = Matches(input, s.list, 0)])

(* expand_tilde followed by fs::canonicalize: what the typed target        *)
(* resolves to is the file system's answer                                  *)
(* (None: expand_tilde or canonicalize failed)                              *)
GotoTargets == {None, Some(<<>>), Some(HomePath)}

(* do_goto resetting caret and selection before the target is resolved *)
DoGotoResetsFirst(s, target, fsres) ==
    LET input == UnwrapOrDefault(s.input)
    IN IF input = <<>> THEN Ok(s)
       ELSE IF target = None
       THEN Ok([s EXCEPT !.index = 0, !.offset = 0, !.selected = <<>>,
                         !.message = Some("Invalid path!")])
       ELSE ReadDir([s EXCEPT !.path = target[1], !.index = 0, !.offset = 0,
                              !.message = None, !.selected = <<>>], fsres)

(* do_goto *)
DoGoto(s, target, fsres) ==
    LET input == UnwrapOrDefault(s.input)
    IN IF input = <<>> THEN Ok(s)
       ELSE IF target = None
       THEN Ok([s EXCEPT !.message = Some("Invalid path!")])
       ELSE ReadDir([s EXCEPT !.path = target[1], !.index = 0, !.offset = 0,
                              !.message = None, !.selected = <<>>], fsres)

(* the outcomes of Command::output in do_exec *)
ExecOutcomes == {"launch_failed", "no_status", "exit_zero", "exit_nonzero"}

(* do_exec *)
DoExec(s, outcome) ==
    LET input == UnwrapOrDefault(s.input)
    IN IF input = <<>> THEN Ok(s)
       ELSE IF outcome = "launch_failed"
       THEN Ok([s EXCEPT !.message = Some("Failed to execute!")])
       ELSE IF outcome = "no_status"
       THEN Ok([s EXCEPT !.message = Some("Failed to execute! Reason: Status code unknown")])
       ELSE IF outcome = "exit_zero" THEN Ok([s EXCEPT !.output = Some("stdout")])
       ELSE Ok([s EXCEPT !.output = Some("stderr")])

(* the command handler f that prompt() is given for each kind *)
Handler(kind, s, target, fsres, outcome) ==
    CASE kind = "search" -> DoSearch(s)
      [] kind = "goto" -> DoGoto(s, target, fsres)
      [] kind = "exec" -> DoExec(s, outcome)

----------------------------------------------------------------------------
(* prompt(): the operations on the state while the prompt is open.  hist is *)
(* the local `history`, the Vec of the prompt's kind in the cloned map.     *)

(* the entry of prompt() up to its loop *)
PromptOpen(s, title) ==
    PrintScreen([s EXCEPT
        !.history = [s.history EXCEPT ![title] =
                        IF s.history[title] = None THEN Some(<<>>) ELSE @],
        !.title = Some(title), !.mode = "Prompt", !.input = None,
        !.cursor = 0, !.history_index = 0, !.term_cursor = TRUE])

(* Key::Escape leaving the mode as it is *)
PromptEscapeKeepsMode(s) == PrintScreen(s)

(* Key::Escape *)
PromptEscape(s) == PrintScreen([s EXCEPT !.mode = "Normal", !.term_cursor = FALSE])

(* Key::Backspace *)
PromptBackspace(s) ==
    LET search == UnwrapOrDefault(s.input)
    IN IF search # <<>> /\ s.cursor > 0
       THEN LET s1 == [s EXCEPT !.cursor = s.cursor - 1]
                removed == StringRemove(search, s1.cursor)
            IN IF removed = None THEN Panic(s1)
               ELSE PrintScreen([s1 EXCEPT !.input = Some(removed[1])])
       ELSE Ok(s)

(* Key::Del *)
PromptDel(s) ==
    LET search == UnwrapOrDefault(s.input)
    IN IF s.cursor < Len(search)
       THEN LET removed == StringRemove(search, s.cursor)
            IN IF removed = None THEN Panic(s)
               ELSE PrintScreen([s EXCEPT !.input = Some(removed[1])])
       ELSE Ok(s)

(* Key::Char(char) *)
PromptChar(s, ch) ==
    LET search == UnwrapOrDefault(s.input)
        inserted == StringInsert(search, s.cursor, ch)
    IN IF inserted = None THEN Panic(s)
       ELSE PrintScreen([s EXCEPT !.cursor = s.cursor + 1, !.input = Some(inserted[1])])

(* Key::ArrowLeft *)
PromptLeft(s) ==
    IF s.cursor > 0 THEN Ok([s EXCEPT !.cursor = s.cursor - 1]) ELSE Ok(s)

(* Key::ArrowRight *)
PromptRight(s) ==
    IF s.cursor < Len(UnwrapOrDefault(s.input))
    THEN Ok([s EXCEPT !.cursor = s.cursor + 1])
    ELSE Ok(s)

(* Key::ArrowUp walking the history oldest first *)
PromptArrowUpOldestFirst(s, hist) ==
    IF hist # <<>> /\ s.history_index < Len(hist)
    THEN LET hi == s.history_index + 1
             input == Some(hist[hi])
         IN PrintScreen([s EXCEPT !.history_index = hi, !.input = input,
                                  !.cursor = Len(UnwrapOrDefault(input))])
    ELSE Ok(s)

(* Key::ArrowUp *)
PromptArrowUp(s, hist) ==
    IF hist # <<>> /\ s.history_index < Len(hist)
    THEN LET hi == s.history_index + 1
             input == Some(hist[Len(hist) - hi + 1])
         IN PrintScreen([s EXCEPT !.history_index = hi, !.input = input,
                                  !.cursor = Len(UnwrapOrDefault(input))])
    ELSE Ok(s)

(* Key::ArrowDown *)
PromptArrowDown(s, hist) ==
    IF hist # <<>>
    THEN LET s1 == IF s.history_index > 1
                   THEN [s EXCEPT !.history_index = s.history_index - 1,
                                  !.input = Some(hist[Len(hist) - (s.history_index - 1) + 1])]
                   ELSE [s EXCEPT !.history_index = 0, !.input = None]
         IN PrintScreen([s1 EXCEPT !.cursor = Len(UnwrapOrDefault(s1.input))])
    ELSE Ok(s)

(* Key::Enter pushing in front of the local history *)
PromptCommitInFront(s, hist) == IF IsSome(s.input) THEN <<s.input[1]>> \o hist ELSE hist

(* Key::Enter, the push onto the local history *)
PromptCommit(s, hist) == IF IsSome(s.input) THEN Append(hist, s.input[1]) ELSE hist

(* Key::Enter, from the mode switch to the print after the handler *)
PromptEnter(s, target, fsres, outcome) ==
    ThenPrint(Handler(s.title[1], [s EXCEPT !.mode = "Normal", !.term_cursor = FALSE],
                      target, fsres, outcome))

----------------------------------------------------------------------------
(* The event loop.  pc is where the thread is: "start" (State::new has      *)
(* run), "normal" (update_loop waits for a key), "g" (update_loop waits for *)
(* the key after 'g'), "prompt" (the loop of prompt() waits for a key),     *)
(* "exited" (update_loop broke and init_ui returned Ok), "failed" (an Err   *)
(* reached main, which prints it) and "panicked".                           *)
(* call is the handler invocation f(state) of the step just taken, if any.  *)

PcAfter(res, okpc) ==
    CASE res.r = "ok" -> okpc
      [] res.r = "err" -> "failed"
      [] res.r = "panic" -> "panicked"

Env == <<height, overflow_checks, fs, keyboard>>

(* a handler called from update_loop returned res *)
Returns(res) ==
    /\ state' = res.s
    /\ pc' = PcAfter(res, "normal")
    /\ call' = None
    /\ UNCHANGED <<histories, Env>>

(* a key handled inside the loop of prompt() without leaving it *)
PromptReturns(res) ==
    /\ state' = res.s
    /\ pc' = PcAfter(res, "prompt")
    /\ call' = None
    /\ UNCHANGED <<histories, Env>>

Awaiting == pc = "normal" /\ state.output = None

(* init_ui up to update_loop *)
InitUi ==
    /\ pc = "start"
    /\ \E fsres \in fs :
           Returns(ThenPrint(ReadDir([state EXCEPT !.term_cursor = FALSE], fsres)))

(* 'q': update_loop breaks and init_ui clears the screen and shows the     *)
(* cursor again                                                             *)
KeyQuit ==
    /\ Awaiting
    /\ state' = [state EXCEPT !.term_cursor = TRUE]
    /\ pc' = "exited"
    /\ call' = None
    /\ UNCHANGED <<histories, Env>>

KeyDown == Awaiting /\ Returns(MoveCaret(state, "Down"))

KeyUp == Awaiting /\ Returns(MoveCaret(state, "Up"))

KeyNext == Awaiting /\ Returns(MoveCaret(state, "Next"))

KeyPrev == Awaiting /\ Returns(MoveCaret(state, "Prev"))

KeyG ==
    /\ Awaiting
    /\ pc' = "g"
    /\ call' = None
    /\ UNCHANGED <<state, histories, Env>>

KeyGTop == pc = "g" /\ Returns(MoveCaret(state, "Top"))

KeyGBottom == pc = "g" /\ Returns(MoveCaret(state, "Bottom"))

KeyGOther == pc = "g" /\ Returns(Ok(state))

KeyParent ==
    /\ Awaiting
    /\ \E fsres \in fs : Returns(ChangeDirParent(state, fsres))

KeyChild ==
    /\ Awaiting
    /\ Len(state.path) < MaxDepth
    /\ \E fsres \in fs, outcome \in OpenOutcomes :
           Returns(ChangeDirChild(state, fsres, outcome))

KeyHome ==
    /\ Awaiting
    /\ \E home \in HomeDirs, fsres \in fs :
           Returns(ChangeDirHome(state, home, fsres))

KeyDotfiles ==
    /\ Awaiting
    /\ \E fsres \in fs : Returns(ToggleDotfiles(state, fsres))

KeyToggleSelect == Awaiting /\ Returns(ToggleSelect(state))

KeySelectAll == Awaiting /\ Returns(SelectAll(state))

KeyClearSelection == Awaiting /\ Returns(ClearSelection(state))

KeyRefresh ==
    /\ Awaiting
    /\ \E fsres \in fs : Returns(Refresh(state, fsres))

KeyOpen ==
    /\ Awaiting
    /\ \E outcome \in OpenOutcomes : Returns(OpenFile(state, outcome))

(* a key while exec output is on display *)
KeyDismissOutput ==
    /\ pc = "normal" /\ IsSome(state.output)
    /\ \E fsres \in fs : Returns(DismissOutput(state, fsres))

KeyIgnoredByOutput ==
    /\ pc = "normal" /\ IsSome(state.output)
    /\ Returns(Ok(state))

(* '/', 't', '!' *)
KeyPrompt(title) ==
    /\ Awaiting
    /\ LET res == PromptOpen(state, title)
       IN /\ state' = res.s
          /\ pc' = PcAfter(res, "prompt")
          /\ histories' = res.s.history
          /\ call' = None
          /\ UNCHANGED Env

KeySearch == KeyPrompt("search")

KeyGoto == KeyPrompt("goto")

KeyExec == KeyPrompt("exec")

(* the local `history` of the open prompt *)
PromptHistory == HistoryOf(histories, state.title[1])

(* Key::Escape writing the buffer into the history as Enter does *)
PromptKeyEscapeCommitting ==
    /\ pc = "prompt"
    /\ LET res == PromptEscape(state)
           pushed == [histories EXCEPT ![state.title[1]] =
                         Some(PromptCommit(state, PromptHistory))]
       IN /\ state' = [res.s EXCEPT !.history = pushed]
          /\ pc' = PcAfter(res, "normal")
          /\ histories' = pushed
          /\ call' = None
          /\ UNCHANGED Env

PromptKeyEscape ==
    /\ pc = "prompt"
    /\ LET res == PromptEscape(state)
       IN /\ state' = [res.s EXCEPT !.history = histories]
          /\ pc' = PcAfter(res, "normal")
          /\ call' = None
          /\ UNCHANGED <<histories, Env>>

PromptKeyBackspace == pc = "prompt" /\ PromptReturns(PromptBackspace(state))

PromptKeyDel == pc = "prompt" /\ PromptReturns(PromptDel(state))

PromptKeyChar ==
    /\ pc = "prompt"
    /\ \E ch \in keyboard :
        /\ CharCount(UnwrapOrDefault(state.input)) < MaxBuf
        /\ PromptReturns(PromptChar(state, ch))

PromptKeyLeft == pc = "prompt" /\ PromptReturns(PromptLeft(state))

PromptKeyRight == pc = "prompt" /\ PromptReturns(PromptRight(state))

PromptKeyUp == pc = "prompt" /\ PromptReturns(PromptArrowUp(state, PromptHistory))

PromptKeyDown == pc = "prompt" /\ PromptReturns(PromptArrowDown(state, PromptHistory))

(* the number of strings committed so far, over all kinds *)
Committed == Len(HistoryOf(histories, "search")) + Len(HistoryOf(histories, "goto"))
                + Len(HistoryOf(histories, "exec"))

PromptKeyEnter ==
    /\ pc = "prompt"
    /\ IsSome(state.input) => Committed < MaxHist
    /\ \E target \in GotoTargets, fsres \in fs, outcome \in ExecOutcomes :
        LET kind == state.title[1]
            pushed == [histories EXCEPT ![kind] = Some(PromptCommit(state, PromptHistory))]
            res == PromptEnter(state, target, fsres, outcome)
        IN /\ state' = IF res.r = "ok" THEN [res.s EXCEPT !.history = pushed] ELSE res.s
           /\ pc' = PcAfter(res, "normal")
           /\ histories' = pushed
           /\ call' = Some(<<kind, UnwrapOrDefault(state.input)>>)
           /\ UNCHANGED Env

----------------------------------------------------------------------------
(* The whole program, from State::new on *)

StartPaths == {HomePath}

Heights == 10..MaxHeight

(* State::new has run; the environment is drawn *)
InitWith(heights, checks, answers) ==
    /\ \E path \in StartPaths : state = NewState(path)
    /\ pc = "start"
    /\ histories = [k \in Kinds |-> None]
    /\ call = None
    /\ height \in heights
    /\ overflow_checks \in checks
    /\ fs = answers
    /\ keyboard = {"a"}

SmallListing == << Entry(<<"a">>, "File"), Entry(<<"d">>, "Dir") >>

Init == InitWith({MaxHeight}, {TRUE}, {IoError, FsOk(SmallListing)})

InitNav == InitWith({10, MaxHeight}, BOOLEAN, FsResults)

(* the keys update_loop handles itself *)
NextNav ==
    \/ InitUi
    \/ KeyQuit
    \/ KeyDown
    \/ KeyUp
    \/ KeyNext
    \/ KeyPrev
    \/ KeyG
    \/ KeyGTop
    \/ KeyGBottom
    \/ KeyGOther
    \/ KeyParent
    \/ KeyChild
    \/ KeyHome
    \/ KeyDotfiles
    \/ KeyToggleSelect
    \/ KeySelectAll
    \/ KeyClearSelection
    \/ KeyRefresh
    \/ KeyOpen

(* the prompts, and the keys while exec output is on display *)
NextPrompt ==
    \/ KeyDismissOutput
    \/ KeyIgnoredByOutput
    \/ KeySearch
    \/ KeyGoto
    \/ KeyExec
    \/ PromptKeyEscape
    \/ PromptKeyChar
    \/ PromptKeyBackspace
    \/ PromptKeyDel
    \/ PromptKeyLeft
    \/ PromptKeyRight
    \/ PromptKeyUp
    \/ PromptKeyDown
    \/ PromptKeyEnter

Next == NextNav \/ NextPrompt

Spec == Init /\ [][Next]_vars

(* The process from its start: create_state canonicalizes the path         *)
(* argument, which fails for an invalid one.  Until State::new has run,     *)
(* state holds a State of the empty path that nothing reads.                *)
CanonicalPaths == {None, Some(HomePath)}

CreateState ==
    /\ pc = "boot"
    /\ \E path \in CanonicalPaths :
        IF path = None
        THEN pc' = "failed" /\ UNCHANGED state
        ELSE pc' = "start" /\ state' = NewState(path[1])
    /\ call' = None
    /\ UNCHANGED <<histories, Env>>

(* the exit status of the process once it has ended: main returns () after *)
(* init returned, Ok or Err (it prints the Err); a panic exits with 101     *)
ExitStatus == IF pc = "panicked" THEN 101 ELSE 0

InitStart ==
    /\ state = NewState(<<>>)
    /\ pc = "boot"
    /\ histories = [k \in Kinds |-> None]
    /\ call = None
    /\ height = MaxHeight
    /\ overflow_checks \in BOOLEAN
    /\ fs = FsResults
    /\ keyboard = {"a"}

NextStart == CreateState \/ NextNav

SpecStart == InitStart /\ [][NextStart]_vars

(* Directory reads: the directory holds up to MaxEntries of six entries,   *)
(* two of each kind, one of the two a dotfile, in any order; it is read by  *)
(* init_ui, by the dotfile toggle and by the refresh                        *)
EntryPool ==
    { Entry(<<"b">>, "File"), Entry(<<".", "a">>, "File"),
      Entry(<<"d">>, "Dir"), Entry(<<".", "c">>, "Dir"),
      Entry(<<"s">>, "Symlink"), Entry(<<".", "t">>, "Symlink") }

PoolListings ==
    UNION { {l \in [1..n -> EntryPool] : \A i, j \in 1..n : l[i] = l[j] => i = j} :
            n \in 0..MaxEntries }

InitRead ==
    /\ state = NewState(HomePath)
    /\ pc = "start"
    /\ histories = [k \in Kinds |-> None]
    /\ call = None
    /\ height = MaxHeight
    /\ overflow_checks = TRUE
    /\ fs \in {{IoError, FsOk(l)} : l \in PoolListings}
    /\ keyboard = {"a"}

NextRead == InitUi \/ KeyDotfiles \/ KeyRefresh

SpecRead == InitRead /\ [][NextRead]_vars

(* Selection jumps: update_loop waits for a key over a list of MaxLen      *)
(* files, or of four fewer (fewer than the screen has rows for), that       *)
(* init_ui has read and printed; the caret is moved, up to MaxSel entries   *)
(* are toggled into the selection or all are selected, and 'n' and 'N' jump *)
(* between them                                                             *)
InitSelect ==
    /\ height = MaxHeight
    /\ overflow_checks \in BOOLEAN
    /\ \E n \in {MaxLen - 4, MaxLen} :
           state = [NewState(HomePath) EXCEPT !.term_cursor = FALSE,
                                              !.list = LongListing(n),
                                              !.lines = PrintLines]
    /\ pc = "normal"
    /\ histories = [k \in Kinds |-> None]
    /\ call = None
    /\ fs = {FsOk(LongListing(MaxLen))}
    /\ keyboard = {"a"}

KeyToggleSelectFew == Len(state.selected) < MaxSel /\ KeyToggleSelect

NextSelect ==
    \/ KeyDown
    \/ KeyUp
    \/ KeyToggleSelectFew
    \/ KeySelectAll
    \/ KeyClearSelection
    \/ KeyNext
    \/ KeyPrev
    \/ KeyG
    \/ KeyGTop
    \/ KeyGBottom

SpecSelect == InitSelect /\ [][NextSelect]_vars

(* Navigation and selection without prompts *)
SpecNav == InitNav /\ [][NextNav]_vars

(* Caret movement alone: update_loop waits for a key over a non-empty list *)
(* that init_ui has read and printed, the caret on the first entry          *)
InitMove ==
    /\ height \in Heights
    /\ overflow_checks \in BOOLEAN
    /\ \E n \in 1..MaxLen :
           state = [NewState(HomePath) EXCEPT !.term_cursor = FALSE, !.list = GenListing(n),
                                              !.lines = PrintLines]
    /\ pc = "normal"
    /\ histories = [k \in Kinds |-> None]
    /\ call = None
    /\ fs = FsResults
    /\ keyboard = {"a"}

NextMove == KeyDown \/ KeyUp

SpecMove == InitMove /\ [][NextMove]_vars

(* Caret movement and the jumps to the top and the bottom, over lists long *)
(* enough for both branches of Move::Bottom                                 *)
InitJump ==
    /\ height \in Heights
    /\ overflow_checks \in BOOLEAN
    /\ \E n \in 1..MaxLong :
           state = [NewState(HomePath) EXCEPT !.term_cursor = FALSE, !.list = LongListing(n),
                                              !.lines = PrintLines]
    /\ pc = "normal"
    /\ histories = [k \in Kinds |-> None]
    /\ call = None
    /\ fs = FsResults
    /\ keyboard = {"a"}

NextJump == KeyDown \/ KeyUp \/ KeyG \/ KeyGTop \/ KeyGBottom \/ KeyGOther

SpecJump == InitJump /\ [][NextJump]_vars

(* Searches: update_loop waits for a key over a list of nine files that    *)
(* init_ui has read and printed; the caret is moved and searches are typed  *)
(* with an anchor, a group opener and a digit that one file name holds      *)
SearchListing == LongListing(9)

InitSearch ==
    /\ height = MaxHeight
    /\ overflow_checks \in BOOLEAN
    /\ state = [NewState(HomePath) EXCEPT !.term_cursor = FALSE, !.list = SearchListing,
                                          !.lines = PrintLines]
    /\ pc = "normal"
    /\ histories = [k \in Kinds |-> None]
    /\ call = None
    /\ fs = {FsOk(SearchListing)}
    /\ keyboard = {"^", "(", "3"}

NextSearch ==
    \/ KeyDown
    \/ KeyUp
    \/ KeySearch
    \/ PromptKeyChar
    \/ PromptKeyBackspace
    \/ PromptKeyEscape
    \/ PromptKeyEnter

SpecSearch == InitSearch /\ [][NextSearch]_vars

(* Searches with patterns of anchors and group openers over the three      *)
(* entries of MixedListing: the caret is moved down and searches are typed  *)
InitPattern ==
    /\ height = MaxHeight
    /\ overflow_checks \in BOOLEAN
    /\ state = [NewState(HomePath) EXCEPT !.term_cursor = FALSE,
                   !.list = ReadDir(NewState(HomePath), FsOk(MixedListing)).s.list,
                   !.lines = PrintLines]
    /\ pc = "normal"
    /\ histories = [k \in Kinds |-> None]
    /\ call = None
    /\ fs = {FsOk(MixedListing)}
    /\ keyboard = {"^", "("}

NextPattern == KeyDown \/ KeySearch \/ PromptKeyChar \/ PromptKeyEnter

SpecPattern == InitPattern /\ [][NextPattern]_vars

(* Prompt sessions: update_loop waits for a key over the list that init_ui *)
(* has read and printed; only the prompt keys and the keys that dismiss     *)
(* exec output are pressed                                                  *)
InitPromptWith(chars) ==
    /\ height = MaxHeight
    /\ overflow_checks = TRUE
    /\ state = [NewState(HomePath) EXCEPT !.term_cursor = FALSE,
                   !.list = ReadDir(NewState(HomePath), FsOk(MixedListing)).s.list,
                   !.lines = PrintLines]
    /\ pc = "normal"
    /\ histories = [k \in Kinds |-> None]
    /\ call = None
    /\ fs = {IoError, FsOk(MixedListing)}
    /\ keyboard = chars

InitPrompt == InitPromptWith({"a"})

SpecPrompt == InitPrompt /\ [][NextPrompt]_vars

(* Line editing with a char of two bytes on the keyboard *)
InitEdit == InitPromptWith({"a", "U+E9"})

SpecEdit == InitEdit /\ [][NextPrompt]_vars

(* Exec output: update_loop waits for a key over the list that init_ui has *)
(* read and printed; a command is typed into the exec prompt and run, keys  *)
(* are pressed while its output is on display, and 'q' is pressed           *)
NextOutput ==
    \/ KeyQuit
    \/ KeyDown
    \/ KeyExec
    \/ PromptKeyChar
    \/ PromptKeyEscape
    \/ PromptKeyEnter
    \/ KeyDismissOutput
    \/ KeyIgnoredByOutput

SpecOutput == InitPrompt /\ [][NextOutput]_vars

----------------------------------------------------------------------------
(* Properties *)

ToSet(v) == {v[i] : i \in 1..Len(v)}

NoDuplicates(v) == \A i, j \in 1..Len(v) : v[i] = v[j] => i = j

(* C1: from caret 0, offset 0 on a non-empty list, after every Move::Down  *)
(* and Move::Up, 0 <= offset <= index < len and index < offset +            *)
(* visibleRows, visibleRows being lines - MARGIN + 1; every call returns.   *)
C1_ViewportInvariant ==
    /\ pc = "normal"
    /\ 0 <= state.offset
    /\ state.offset <= state.index
    /\ state.index < Len(state.list)
    /\ state.index < state.offset + VisibleRows(state.lines)

(* C2: whenever the entry list is non-empty the caret indexes into it, so  *)
(* State::get_current never reads past the end of the list.                 *)
C2_CaretInList == state.list # <<>> => state.index < Len(state.list)

(* C3: the selection holds no index twice and every selected index is an   *)
(* index of the current entry list.                                         *)
C3_SelectionInList ==
    /\ NoDuplicates(state.selected)
    /\ \A i \in 1..Len(state.selected) :
           0 <= state.selected[i] /\ state.selected[i] < Len(state.list)

(* a step of update_loop that replaced the entry list by a re-read:        *)
(* parent, child directory, home, goto, dotfile toggle, refresh, or the     *)
(* re-read when exec output is dismissed                                    *)
ListReRead ==
    /\ pc' = "normal"
    /\ \/ KeyRefresh
       \/ KeyDotfiles
       \/ KeyDismissOutput
       \/ (KeyParent \/ KeyHome \/ KeyChild) /\ state'.path # state.path
       \/ /\ PromptKeyEnter
          /\ state.title = Some("goto")
          /\ UnwrapOrDefault(state.input) # <<>>
          /\ state'.message = None

(* C4: right after any re-read of the directory the selection is empty.    *)
C4_ReReadClearsSelection == [][ListReRead => state'.selected = <<>>]_vars

(* C5: on a non-empty list, toggle_select applied twice at the same caret  *)
(* leaves every index's membership in the selection as it was.              *)
C5_ToggleTwice ==
    [][(KeyToggleSelect /\ state.list # <<>>) =>
          LET again == ToggleSelect(state')
          IN /\ pc' = "normal"
             /\ again.r = "ok"
             /\ ToSet(again.s.selected) = ToSet(state.selected)
             /\ ToSet(state'.selected) # ToSet(state.selected)]_vars

(* C5 witness: a toggle has put the caret's index into a selection of      *)
(* several, not at its end, so the second toggle removes from the middle    *)
C5_Witness ==
    /\ pc = "normal"
    /\ state.list # <<>>
    /\ Len(state.selected) >= 2
    /\ state.selected[1] = state.index

(* C6: in an open prompt, Key::Char then Key::Backspace gives back the     *)
(* buffer text and the cursor of before, from every buffer and cursor.      *)
C6_InsertThenBackspace ==
    [][PromptKeyChar =>
          LET back == PromptBackspace(state')
          IN /\ pc' = "prompt"
             /\ back.r = "ok"
             /\ UnwrapOrDefault(back.s.input) = UnwrapOrDefault(state.input)
             /\ back.s.cursor = state.cursor]_vars

(* C7: with h the history of the open prompt's kind and n its length, an   *)
(* ArrowUp at historyIndex k < n sets historyIndex to k + 1, the buffer to  *)
(* the (k + 1)-th most recent entry and the cursor to the buffer's end; at  *)
(* k = n it changes nothing.  An ArrowDown at k > 1 sets the buffer to the  *)
(* (k - 1)-th most recent entry; at k = 1 it empties the buffer and sets    *)
(* historyIndex to 0.                                                       *)
C7_HistoryNavigation ==
    [][LET h == PromptHistory
           n == Len(h)
           k == state.history_index
       IN /\ PromptKeyUp =>
                IF k < n
                THEN /\ pc' = "prompt"
                     /\ state'.history_index = k + 1
                     /\ state'.input = Some(h[n - k])
                     /\ state'.cursor = Len(h[n - k])
                ELSE state' = state
          /\ (PromptKeyDown /\ k > 1) =>
                /\ pc' = "prompt"
                /\ state'.history_index = k - 1
                /\ state'.input = Some(h[n - k + 2])
                /\ state'.cursor = Len(h[n - k + 2])
          /\ (PromptKeyDown /\ k = 1) =>
                /\ pc' = "prompt"
                /\ state'.history_index = 0
                /\ UnwrapOrDefault(state'.input) = <<>>]_vars

(* C7 witness: two ArrowUp in a prompt whose history holds two different   *)
(* strings have reached the older one                                       *)
C7_Witness ==
    /\ pc = "prompt"
    /\ Len(PromptHistory) = 2
    /\ PromptHistory[1] # PromptHistory[2]
    /\ state.history_index = 2
    /\ state.input = Some(PromptHistory[1])

(* C8: ArrowDown at historyIndex 0 changes neither the buffer text nor the *)
(* cursor nor historyIndex.                                                 *)
C8_HistoryNextAtZero ==
    [][(PromptKeyDown /\ state.history_index = 0) =>
          /\ UnwrapOrDefault(state'.input) = UnwrapOrDefault(state.input)
          /\ state'.cursor = state.cursor
          /\ state'.history_index = 0]_vars

(* C9: an Enter whose handler returns appends the buffer, once, to the     *)
(* history of the prompt's kind if the buffer text is non-empty, and leaves *)
(* that history as it was if the text is empty.                             *)
C9_CommitAppendsNonEmpty ==
    [][(PromptKeyEnter /\ pc' = "normal") =>
          LET kind == state.title[1]
              text == UnwrapOrDefault(state.input)
              before == HistoryOf(state.history, kind)
          IN HistoryOf(state'.history, kind) =
                 IF text # <<>> THEN Append(before, text) ELSE before]_vars

(* C10: no step taken in an open prompt other than Enter (editing, history *)
(* navigation, Escape) changes the history of any kind, and Escape returns  *)
(* to update_loop without calling a handler.                                *)
C10_CancelKeepsHistory ==
    [][/\ (pc = "prompt" /\ ~PromptKeyEnter) =>
              \A kind \in Kinds :
                  HistoryOf(state'.history, kind) = HistoryOf(state.history, kind)
       /\ PromptKeyEscape => (pc' = "normal" /\ call' = None)]_vars

(* C10 witness: a goto prompt was cancelled with text typed, while the     *)
(* search history holds a commit: an Enter would have put the text into the *)
(* goto history                                                             *)
C10_Witness ==
    /\ pc = "normal"
    /\ call = None
    /\ state.title = Some("goto")
    /\ state.input = Some(<<"a">>)
    /\ HistoryOf(state.history, "goto") = <<>>
    /\ HistoryOf(state.history, "search") # <<>>

(* C11: the prompt is a two-state machine over state.mode.  '/', 't', '!'  *)
(* move Mode::Normal to Mode::Prompt with the kind as title, no input,      *)
(* cursor 0 and history_index 0; Enter calls the kind's handler once with   *)
(* the buffer text and leaves Mode::Normal; Escape leaves Mode::Normal and  *)
(* calls no handler; every other key of an open prompt stays in             *)
(* Mode::Prompt with the same kind and calls nothing; no key opens a prompt *)
(* while one is open.                                                       *)
C11_PromptStateMachine ==
    [][/\ (KeySearch \/ KeyGoto \/ KeyExec) =>
              /\ state.mode = "Normal"
              /\ pc' = "prompt"
              /\ state'.mode = "Prompt"
              /\ state'.title = Some(IF KeySearch THEN "search"
                                     ELSE IF KeyGoto THEN "goto" ELSE "exec")
              /\ state'.input = None
              /\ state'.cursor = 0
              /\ state'.history_index = 0
              /\ call' = None
       /\ PromptKeyEnter =>
              /\ state.mode = "Prompt"
              /\ state'.mode = "Normal"
              /\ pc' # "prompt"
              /\ call' = Some(<<state.title[1], UnwrapOrDefault(state.input)>>)
       /\ PromptKeyEscape =>
              /\ state.mode = "Prompt"
              /\ state'.mode = "Normal"
              /\ pc' = "normal"
              /\ call' = None
       /\ (pc = "prompt" /\ ~PromptKeyEnter /\ ~PromptKeyEscape) =>
              /\ pc' \notin {"normal", "g"}
              /\ state'.mode = "Prompt"
              /\ state'.title = state.title
              /\ call' = None
       /\ state.mode = "Prompt" => ~(KeySearch \/ KeyGoto \/ KeyExec)
       /\ pc' = "prompt" => state'.mode = "Prompt"
       /\ pc' \in {"normal", "g"} => state'.mode = "Normal"]_vars

(* C11 witness: the Enter of a search prompt has called do_search with the  *)
(* text "a", which selected the entry of that name                          *)
C11_Witness ==
    /\ pc = "normal"
    /\ state.mode = "Normal"
    /\ call = Some(<<"search", <<"a">>>>)
    /\ state.selected # <<>>

Max(a, b) == IF a >= b THEN a ELSE b

(* C12: after Move::Bottom on a non-empty list, index = len - 1 and        *)
(* offset = max(0, len - visibleRows), so the caret is inside the rows that *)
(* print draws, [offset, offset + visibleRows - 1].                         *)
C12_BottomPinsTail ==
    [][(KeyGBottom /\ state.list # <<>>) =>
          LET len == Len(state'.list)
              rows == VisibleRows(state'.lines)
          IN /\ pc' = "normal"
             /\ state'.index = len - 1
             /\ state'.offset = Max(0, len - rows)
             /\ state'.offset <= state'.index
             /\ state'.index <= state'.offset + rows - 1]_vars

(* C13: on a non-empty list, from every caret and offset, Move::Bottom     *)
(* followed by Move::Top leaves index 0 and offset 0.                       *)
C13_BottomThenTop ==
    [][/\ (KeyGBottom /\ state.list # <<>>) =>
              LET top == MoveTop(state')
              IN /\ pc' = "normal"
                 /\ top.r = "ok"
                 /\ top.s.index = 0
                 /\ top.s.offset = 0
       /\ (KeyGTop /\ state.list # <<>>) =>
              /\ pc' = "normal"
              /\ state'.index = 0
              /\ state'.offset = 0]_vars

(* C13 witness: the caret is on the last entry of a list that the screen   *)
(* cannot hold, the offset pinned to the tail, where Move::Bottom's second  *)
(* branch leaves it and from where Move::Top has to reset both              *)
C13_Witness ==
    /\ pc = "normal"
    /\ Len(state.list) >= state.lines + MARGIN + 1
    /\ state.index = Len(state.list) - 1
    /\ state.offset = Len(state.list) - VisibleRows(state.lines)

(* a search is committed: Enter in a search prompt with text typed *)
SearchCommitted ==
    /\ PromptKeyEnter
    /\ state.title = Some("search")
    /\ UnwrapOrDefault(state.input) # <<>>

(* the indices of the entries whose name the regular expression matches    *)
(* somewhere                                                                *)
Matching(pattern, list) ==
    {i \in 0..(Len(list) - 1) :
        \E pos \in 0..Len(list[i + 1].file_name) :
            RegexMatchAt(pattern, list[i + 1].file_name, pos)}

Least(S) == CHOOSE i \in S : \A j \in S : i <= j

(* C14: committing a non-empty search whose text is a valid regular        *)
(* expression makes the selection exactly the indices of the matching       *)
(* entries, puts the caret on the smallest of them if there is one and      *)
(* leaves the caret where it was if there is none.                          *)
C14_SearchSelectsMatches ==
    [][(SearchCommitted /\ RegexCompiles(UnwrapOrDefault(state.input))) =>
          LET found == Matching(UnwrapOrDefault(state.input), state.list)
          IN /\ pc' = "normal"
             /\ NoDuplicates(state'.selected)
             /\ ToSet(state'.selected) = found
             /\ state'.index = IF found # {} THEN Least(found) ELSE state.index]_vars

(* C15 as stated: committing a search whose text is not a valid regular    *)
(* expression, such as "(", leaves selection, caret and offset as they were *)
(* and sets an error message.                                               *)
C15_InvalidPatternKeepsSelection ==
    [][(SearchCommitted /\ ~RegexCompiles(UnwrapOrDefault(state.input))) =>
          /\ pc' = "normal"
          /\ state'.selected = state.selected
          /\ state'.message = Some("Invalid search pattern!")
          /\ state'.index = state.index
          /\ state'.offset = state.offset]_vars

(* C15 amended: committing a search whose text starts with '^' and is not  *)
(* a valid regular expression, such as "^(", leaves selection, caret and    *)
(* offset as they were and sets an error message; a text that does not      *)
(* start with '^' is escaped and searched for literally, so "(" replaces    *)
(* the selection by the entries whose name holds a '(' and sets no message. *)
C15_InvalidAnchoredPattern ==
    [][/\ (SearchCommitted /\ StartsWith(UnwrapOrDefault(state.input), "^")
              /\ ~RegexCompiles(UnwrapOrDefault(state.input))) =>
              /\ pc' = "normal"
              /\ state'.selected = state.selected
              /\ state'.message = Some("Invalid search pattern!")
              /\ state'.index = state.index
              /\ state'.offset = state.offset
       /\ (SearchCommitted /\ UnwrapOrDefault(state.input) = <<"(">>) =>
              /\ pc' = "normal"
              /\ state'.selected = <<>>
              /\ state'.message = state.message]_vars

(* C15 witness: the search "^(" was committed over a selection that an     *)
(* earlier search had made, and the selection is still there next to the    *)
(* error message                                                            *)
C15_Witness ==
    /\ pc = "normal"
    /\ call = Some(<<"search", <<"^", "(">>>>)
    /\ state.message = Some("Invalid search pattern!")
    /\ state.selected # <<>>

(* a goto is committed: Enter in a goto prompt with text typed *)
GotoCommitted ==
    /\ PromptKeyEnter
    /\ state.title = Some("goto")
    /\ UnwrapOrDefault(state.input) # <<>>

(* path, entry list, caret, offset and selection of t are those of s *)
SameView(s, t) ==
    /\ t.path = s.path
    /\ t.list = s.list
    /\ t.index = s.index
    /\ t.offset = s.offset
    /\ t.selected = s.selected

(* C16: committing a goto whose target cannot be expanded or canonicalized *)
(* sets the error message "Invalid path!", leaves path, entry list, caret,  *)
(* offset and selection as they were and returns to update_loop.            *)
C16_GotoPathError ==
    [][GotoCommitted =>
          /\ \A fsres \in fs, outcome \in ExecOutcomes :
                 LET res == PromptEnter(state, None, fsres, outcome)
                 IN /\ res.r = "ok"
                    /\ res.s.message = Some("Invalid path!")
                    /\ SameView(state, res.s)
          /\ state'.message = Some("Invalid path!") =>
                 (pc' = "normal" /\ SameView(state, state'))]_vars

(* C16 witness: a search had moved the caret and selected an entry, then   *)
(* the goto "a" was committed and failed: message set, caret and selection  *)
(* still there                                                              *)
C16_Witness ==
    /\ pc = "normal"
    /\ call = Some(<<"goto", <<"a">>>>)
    /\ state.message = Some("Invalid path!")
    /\ state.index > 0
    /\ state.selected # <<>>

(* a navigation event that re-reads the directory: parent, child, home,    *)
(* dotfile toggle, refresh, goto                                            *)
NavigationEvent ==
    KeyParent \/ KeyChild \/ KeyHome \/ KeyDotfiles \/ KeyRefresh \/ GotoCommitted

(* C17: when the re-read of a navigation event fails with an I/O error     *)
(* (the Err of read_dir is what takes the thread to "failed"), path, entry  *)
(* list, caret, offset and selection are as before the event and            *)
(* update_loop keeps running.                                               *)
C17_IoErrorKeepsState ==
    [][(NavigationEvent /\ pc' = "failed") =>
          /\ SameView(state, state')
          /\ pc' \in {"normal", "g", "prompt"}]_vars

(* a directory-changing event that completed: parent, child directory,     *)
(* home, dotfile toggle, each with a re-read that succeeded, or a goto to a *)
(* path that resolved                                                       *)
DirectoryChanged ==
    /\ pc' = "normal"
    /\ \/ /\ Awaiting
          /\ \E fsres \in fs :
              /\ fsres.ok
              /\ \/ KeyDotfiles /\ state' = ToggleDotfiles(state, fsres).s
                 \/ /\ KeyParent
                    /\ IsSome(ParentOf(state.path))
                    /\ state' = ChangeDirParent(state, fsres).s
                 \/ KeyHome /\ state' = ChangeDirHome(state, Some(HomePath), fsres).s
                 \/ /\ KeyChild
                    /\ state.list # <<>> /\ state.index < Len(state.list)
                    /\ state.list[state.index + 1].kind # "File"
                    /\ state' = ChangeDirChild(state, fsres, "exit_zero").s
       \/ GotoCommitted /\ state'.message # Some("Invalid path!")

(* C18: right after a directory-changing event that completed, index = 0,  *)
(* offset = 0, the selection is empty and the message is None.              *)
C18_DirectoryChangeResets ==
    [][DirectoryChanged =>
          /\ state'.index = 0
          /\ state'.offset = 0
          /\ state'.selected = <<>>
          /\ state'.message = None]_vars

(* C19: a refresh that returns keeps caret and offset when the caret is    *)
(* still an index of the new list, and otherwise clamps both into the new   *)
(* list.                                                                    *)
C19_RefreshKeepsOrClamps ==
    [][(KeyRefresh /\ pc' = "normal") =>
          IF state.index < Len(state'.list)
          THEN state'.index = state.index /\ state'.offset = state.offset
          ELSE /\ state'.list # <<>> => state'.index < Len(state'.list)
               /\ state'.list = <<>> => state'.index = 0
               /\ state'.offset <= state'.index]_vars

(* open_file is called on the entry under the caret: Enter, or 'l' on an   *)
(* entry that is a file                                                     *)
EntryOpened ==
    /\ state.list # <<>>
    /\ state.index < Len(state.list)
    /\ \/ KeyOpen
       \/ KeyChild /\ state.list[state.index + 1].kind = "File"

(* C20: opening the entry under the caret returns to update_loop for every *)
(* outcome: no application for the extension, the process failed to launch, *)
(* exited non-zero, exited zero; a failure leaves a message.                *)
C20_OpenNeverCrashes ==
    [][EntryOpened =>
          /\ pc' = "normal"
          /\ \A outcome \in OpenOutcomes :
                 LET res == OpenFile(state, outcome)
                 IN (res.r = "ok" /\ outcome # "exit_zero") =>
                        IsSome(res.s.message)]_vars

(* C21: when the path argument cannot be canonicalized the process exits   *)
(* with a non-zero status; when the user quits with 'q' the terminal's      *)
(* cursor is visible again when the process exits.                          *)
C21_ExitBehaviour ==
    [][/\ (CreateState /\ pc' = "failed") => ExitStatus' # 0
       /\ KeyQuit => (pc' = "exited" /\ state'.term_cursor)]_vars

KindRank(kind) == CASE kind = "Dir" -> 0 [] kind = "Symlink" -> 1 [] kind = "File" -> 2

(* list holds each entry of raw once, without those whose name starts with *)
(* '.' when hidden, the directories first, then the symlinks, then the      *)
(* files, the entries of one kind in the order they have in raw             *)
StablePartition(raw, hidden, list) ==
    LET keptAt == {k \in 1..Len(raw) : ~(hidden /\ StartsWith(raw[k].file_name, "."))}
        At(e) == CHOOSE k \in 1..Len(raw) : raw[k] = e
    IN /\ Len(list) = Cardinality(keptAt)
       /\ ToSet(list) = {raw[k] : k \in keptAt}
       /\ \A i, j \in 1..Len(list) :
              i < j => \/ KindRank(list[i].kind) < KindRank(list[j].kind)
                       \/ /\ list[i].kind = list[j].kind
                          /\ At(list[i]) < At(list[j])

(* C22: after every directory read the entry list is the directories, then *)
(* the symlinks, then the files, each group in the order the file system    *)
(* returned them; without the dotfiles when they are hidden, and otherwise  *)
(* with every returned entry exactly once.                                  *)
C22_ReadDirGroups ==
    [][((InitUi \/ KeyDotfiles \/ KeyRefresh) /\ pc' = "normal") =>
          \E fsres \in fs :
              /\ fsres.ok
              /\ StablePartition(fsres.entries, ~state'.show_dotfiles, state'.list)]_vars

(* C22 witness: a read with the dotfiles hidden dropped an entry and left  *)
(* a directory before a file that the file system had returned first        *)
C22_Witness ==
    /\ pc = "normal"
    /\ ~state.show_dotfiles
    /\ Len(state.list) >= 2
    /\ state.list[1].kind = "Dir"
    /\ state.list[Len(state.list)].kind = "File"
    /\ \E fsres \in fs :
           /\ fsres.ok
           /\ Len(fsres.entries) > Len(state.list)
           /\ fsres.entries[1].kind = "File"

(* caret, offset and selection of t are those of s *)
SameCaret(s, t) ==
    /\ t.index = s.index
    /\ t.offset = s.offset
    /\ t.selected = s.selected

(* C23: on an empty list Down, Up, Top, Bottom, Next, Prev, First,         *)
(* toggle_select and select_all return and leave caret, offset and          *)
(* selection as they were; on a non-empty list with an empty selection      *)
(* Next, Prev and First return and leave caret and offset as they were.     *)
C23_NoOpsWhenEmpty ==
    [][/\ (/\ state.list = <<>>
           /\ \/ KeyDown \/ KeyUp \/ KeyGTop \/ KeyGBottom \/ KeyNext \/ KeyPrev
              \/ KeyToggleSelect \/ KeySelectAll) =>
              (pc' = "normal" /\ SameCaret(state, state'))
       /\ (/\ state.list # <<>> /\ state.selected = <<>>
           /\ KeyNext \/ KeyPrev) =>
              (pc' = "normal" /\ SameCaret(state, state'))
       /\ (state.list = <<>> \/ state.selected = <<>>) =>
              LET first == MoveCaret(state, "First")
              IN first.r = "ok" /\ SameCaret(state, first.s)]_vars

(* C23 witness: update_loop waits over an empty list with the caret and a  *)
(* selection left from a longer list, which the operations must not touch   *)
C23_Witness ==
    /\ pc = "normal"
    /\ state.list = <<>>
    /\ state.index > 0
    /\ state.selected # <<>>

Greatest(S) == CHOOSE i \in S : \A j \in S : i >= j

(* a jump between selected entries: 'n' or 'N' over a non-empty list with  *)
(* a non-empty selection                                                    *)
JumpsNext == KeyNext /\ state.list # <<>> /\ state.selected # <<>>

JumpsPrev == KeyPrev /\ state.list # <<>> /\ state.selected # <<>>

(* C25: with a non-empty selection S and the caret on c, Move::Next puts   *)
(* the caret on the least selected index above c, or on the least of S if   *)
(* there is none; Move::Prev puts it on the greatest selected index below   *)
(* c, or on the greatest of S if there is none; neither changes S.          *)
C25_SelectionJumps ==
    [][LET S == ToSet(state.selected)
           above == {s \in S : s > state.index}
           below == {s \in S : s < state.index}
       IN /\ JumpsNext =>
                /\ pc' = "normal"
                /\ state'.index = IF above # {} THEN Least(above) ELSE Least(S)
                /\ state'.selected = state.selected
          /\ JumpsPrev =>
                /\ pc' = "normal"
                /\ state'.index = IF below # {} THEN Greatest(below) ELSE Greatest(S)
                /\ state'.selected = state.selected]_vars

(* the caret of s is on a row that print draws *)
CaretInView(s) ==
    /\ 0 <= s.offset
    /\ s.offset <= s.index
    /\ s.index <= s.offset + VisibleRows(s.lines) - 1

(* C26: after Move::Next or Move::First with a non-empty selection, from   *)
(* every caret and offset and for every list length, 0 <= offset <= index   *)
(* and the index is inside [offset, offset + visibleRows - 1].              *)
C26_JumpKeepsCaretInView ==
    [][/\ JumpsNext => (pc' = "normal" /\ CaretInView(state'))
       /\ (pc = "normal" /\ state.list # <<>> /\ state.selected # <<>>) =>
              LET first == MoveCaret(state, "First")
              IN first.r = "ok" /\ CaretInView(first.s)]_vars

(* C27: Move::Prev changes the index and nothing else: offset, selection,  *)
(* list and message stay as they were, however far the caret moves.         *)
C27_PrevChangesOnlyCaret ==
    [][JumpsPrev =>
          /\ pc' = "normal"
          /\ state' = [state EXCEPT !.index = state'.index]]_vars

(* C27 witness: 'N' wrapped from the top of the list to a selected entry   *)
(* below the rows on display, and the offset is still 0                     *)
C27_Witness ==
    /\ pc = "normal"
    /\ state.selected # <<>>
    /\ state.offset = 0
    /\ state.index > VisibleRows(state.lines)

(* C28: while a prompt is open, after every Key::Char, Backspace, Del,     *)
(* ArrowLeft, ArrowRight, ArrowUp and ArrowDown, 0 <= cursor <= len(buffer) *)
(* and 0 <= historyIndex <= len(history of the prompt's kind); Del removes  *)
(* the char at the cursor and leaves the cursor where it is; ArrowLeft at 0 *)
(* and ArrowRight at the end of the buffer change nothing.                  *)
C28_PromptEditorBounds ==
    [][LET buffer == UnwrapOrDefault(state.input)
       IN /\ pc = "prompt" => pc' \in {"prompt", "normal", "failed"}
          /\ pc' = "prompt" =>
                /\ 0 <= state'.cursor
                /\ state'.cursor <= Len(UnwrapOrDefault(state'.input))
                /\ 0 <= state'.history_index
                /\ state'.history_index <=
                       Len(HistoryOf(histories', state'.title[1]))
          /\ (PromptKeyDel /\ state.cursor < Len(buffer)) =>
                /\ pc' = "prompt"
                /\ state'.cursor = state.cursor
                /\ CharCount(UnwrapOrDefault(state'.input)) = CharCount(buffer) - 1
                /\ SubSeq(UnwrapOrDefault(state'.input), 1, state.cursor) =
                       SubSeq(buffer, 1, state.cursor)
                /\ \E w \in 1..2 :
                       UnwrapOrDefault(state'.input) =
                           SubSeq(buffer, 1, state.cursor)
                               \o SubSeq(buffer, state.cursor + w + 1, Len(buffer))
          /\ (PromptKeyLeft /\ state.cursor = 0) => state' = state
          /\ (PromptKeyRight /\ state.cursor = Len(buffer)) => state' = state]_vars

(* h is g or g with entries appended at its end *)
IsPrefix(g, h) == Len(g) <= Len(h) /\ SubSeq(h, 1, Len(g)) = g

(* C29: the history of each kind only grows by appending: before every     *)
(* step it is a prefix of what it is after the step; an Enter or an Escape  *)
(* in the prompt of one kind leaves the history of every other kind as it   *)
(* was.                                                                     *)
C29_HistoryAppendOnly ==
    [][/\ \A kind \in Kinds :
              /\ IsPrefix(HistoryOf(state.history, kind), HistoryOf(state'.history, kind))
              /\ IsPrefix(HistoryOf(histories, kind), HistoryOf(histories', kind))
       /\ (PromptKeyEnter \/ PromptKeyEscape) =>
              \A kind \in Kinds \ {state.title[1]} :
                  /\ HistoryOf(state'.history, kind) = HistoryOf(state.history, kind)
                  /\ HistoryOf(histories', kind) = HistoryOf(histories, kind)]_vars

(* C29 witness: a goto prompt was committed and its text appended to the  *)
(* goto history, while the search history holds a commit of its own         *)
C29_Witness ==
    /\ pc = "normal"
    /\ call # None
    /\ call[1][1] = "goto"
    /\ Len(HistoryOf(state.history, "goto")) = 1
    /\ Len(HistoryOf(state.history, "search")) = 1

(* C30: on a terminal of at least MARGIN + PADDING lines no subtraction of *)
(* move_caret goes below zero: no movement key panics, and none leaves an   *)
(* offset that wrapped around.                                              *)
C30_MoveCaretNoUnderflow ==
    [][(KeyDown \/ KeyUp \/ KeyNext \/ KeyPrev \/ KeyGTop \/ KeyGBottom) =>
          /\ pc' # "panicked"
          /\ state'.offset <= Len(state'.list)]_vars

(* C31: while exec output is on display every key but 'q' leaves the whole *)
(* state as it is; 'q' clears the output and re-reads the directory, and    *)
(* update_loop keeps running; the program ends only by a 'q' pressed in     *)
(* normal mode with no output on display.                                   *)
C31_OutputSwallowsKeys ==
    [][/\ KeyIgnoredByOutput => (pc' = "normal" /\ state' = state)
       /\ KeyDismissOutput =>
             /\ pc' = "normal"
             /\ state'.output = None
             /\ state' = [state EXCEPT !.output = None, !.list = state'.list,
                                       !.lines = state'.lines]
       /\ (pc = "normal" /\ pc' \notin {"normal", "g", "prompt"}) =>
             /\ KeyQuit
             /\ state.mode = "Normal"
             /\ state.output = None]_vars

====
